---- MODULE Spec2Model ----
(***************************************************************************)
(* Match scoring and synchronisation of the unmute backend:                *)
(*   services/matchScoringService.js  textToVector, cosineSimilarity,      *)
(*                                     updateMatchesForUser                 *)
(*   controllers/matchController.js   acceptMatch, rejectMatch,            *)
(*                                     unmatchUser, refreshMatches          *)
(*   controllers/ventController.js    createVent, deleteVent               *)
(*   services/neo4jService.js         connectUsers, removeUserConnection   *)
(*   services/pineconeService.js      storeVentEmbedding, findSimilarVents *)
(*                                                                         *)
(* Numbers.  A similarity is a float in [0,1] in the code; here it is held *)
(* in thousandths (1000 is 1.0, 300 is 0.3) and sums are exact.  The texts *)
(* of the model have vectors of integral magnitude, so that every          *)
(* similarity of the model is an exact number of thousandths, and halves   *)
(* of them are whole.                                                      *)
(***************************************************************************)
EXTENDS Integers, Sequences, FiniteSets, TLC

(* ------------------------------ bounds -------------------------------- *)
\* vents ever created in one behaviour (vent ids are 1 .. MaxVents)
MaxVents == 3
\* vents ever created in one behaviour of the lifecycle specification
MaxLifecycleVents == 2
\* calls of refreshMatches in one behaviour (every pass adds to matchScore)
MaxRefresh == 1
\* entries the vector index returns to one createVent
MaxSimilar == 1
\* recompute passes started in one behaviour of the interleaved specification
MaxPasses == 3
\* recompute passes in one behaviour of the specification over drawn texts
MaxTextPasses == 2
\* acceptMatch, rejectMatch and unmatchUser calls in one behaviour of the specification
\* of overlapping match handlers
MaxHandlers == 2
\* deleteVent calls in one behaviour of the specification of deletions among passes
MaxDeletes == 2

(* ----------------------------- constants ------------------------------ *)
\* the qualification threshold 0.3, in thousandths
Threshold == 300

Users == {1, 2, 3}

\* a subset of natural.stopwords
stopwords == {"i", "the", "about", "me", "so"}

\* String.prototype.toLowerCase on the tokens the model's texts hold
toLowerCase(tok) ==
  CASE tok = "Work" -> "work"
    [] tok = "I" -> "i"
    [] OTHER -> tok

\* The texts a vent may carry, as the tokenizer splits them.
\* |TextA| = 2, |TextB| = 5, |TextC| = 2:
\*   sim(A,A) = 1.0, sim(A,B) = 3/10 = 0.3, sim(A,C) = 1/4 = 0.25, sim(B,C) = 7/10
TextA == <<"I", "Work", "deadlines", "anxious", "stress">>
TextB == <<"work", "work", "work", "calm", "calm", "calm", "calm">>
TextC == <<"the", "work", "calm", "tired", "sleep">>

\* The createVent requests of the model: the posting user, the text, the emotion.
\* Users 1 and 2 may hold vents of similarity 1.0 and 0.3, users 2 and 3 of 0.7 and
\* 0.25, users 1 and 3 of 0.25 only.
Requests ==
  { [userId |-> 1, text |-> TextA, emotion |-> "Anxious"],
    [userId |-> 2, text |-> TextA, emotion |-> "Sad"],
    [userId |-> 2, text |-> TextB, emotion |-> "Sad"],
    [userId |-> 3, text |-> TextC, emotion |-> "Anxious"] }

(* ------------------------- Vectorizer, Similarity --------------------- *)
RECURSIVE SumOver(_, _)
\* Array.prototype.reduce((sum, x) => sum + f[x], 0) over the keys S
SumOver(f, S) ==
  IF S = {} THEN 0
  ELSE LET x == CHOOSE y \in S : TRUE IN f[x] + SumOver(f, S \ {x})

\* Math.sqrt, on the perfect squares exact, elsewhere rounded down
Sqrt(n) == CHOOSE r \in 0..n : r * r <= n /\ (r + 1) * (r + 1) > n

\* textToVector: lower-case, drop stopwords, count each remaining word
textToVector(text) ==
  LET words == SelectSeq([i \in 1..Len(text) |-> toLowerCase(text[i])],
                         LAMBDA w : w \notin stopwords)
  IN [w \in {words[i] : i \in 1..Len(words)} |->
        Cardinality({i \in 1..Len(words) : words[i] = w})]

\* a similarity that divides by the square of the first magnitude
cosineSimilarityProjection(vecA, vecB) ==
  LET intersection == {w \in DOMAIN vecA : w \in DOMAIN vecB}
      dotProduct == SumOver([w \in intersection |-> vecA[w] * vecB[w]], intersection)
      magnitudeA == Sqrt(SumOver([w \in DOMAIN vecA |-> vecA[w] * vecA[w]], DOMAIN vecA))
      magnitudeB == Sqrt(SumOver([w \in DOMAIN vecB |-> vecB[w] * vecB[w]], DOMAIN vecB))
  IN IF magnitudeA # 0 /\ magnitudeB # 0
       THEN (1000 * dotProduct) \div (magnitudeA * magnitudeA)
       ELSE 0

\* a similarity that takes two vectors for alike when one of them has magnitude 0
cosineSimilarityUnguarded(vecA, vecB) ==
  LET intersection == {w \in DOMAIN vecA : w \in DOMAIN vecB}
      dotProduct == SumOver([w \in intersection |-> vecA[w] * vecB[w]], intersection)
      magnitudeA == Sqrt(SumOver([w \in DOMAIN vecA |-> vecA[w] * vecA[w]], DOMAIN vecA))
      magnitudeB == Sqrt(SumOver([w \in DOMAIN vecB |-> vecB[w] * vecB[w]], DOMAIN vecB))
  IN IF magnitudeA # 0 /\ magnitudeB # 0
       THEN (1000 * dotProduct) \div (magnitudeA * magnitudeB)
       ELSE 1000

\* cosineSimilarity, in thousandths; 0 when a magnitude is 0
cosineSimilarity(vecA, vecB) ==
  LET intersection == {w \in DOMAIN vecA : w \in DOMAIN vecB}
      dotProduct == SumOver([w \in intersection |-> vecA[w] * vecB[w]], intersection)
      magnitudeA == Sqrt(SumOver([w \in DOMAIN vecA |-> vecA[w] * vecA[w]], DOMAIN vecA))
      magnitudeB == Sqrt(SumOver([w \in DOMAIN vecB |-> vecB[w] * vecB[w]], DOMAIN vecB))
  IN IF magnitudeA # 0 /\ magnitudeB # 0
       THEN (1000 * dotProduct) \div (magnitudeA * magnitudeB)
       ELSE 0

(* ------------------------------- state -------------------------------- *)
VARIABLES
  vents,      \* the Vent collection: records [id, userId, text, emotion]
  nextVent,   \* the vents created so far (the next vent gets id nextVent + 1)
  matches,    \* the Match collection: a set of Match Records
  edges,      \* the graph store: the MATCHED relationships, as <<from, to>>
  index,      \* the vector index: the users (metadata.userId) of the stored embeddings
  refreshes,  \* the calls of refreshMatches so far
  resp,       \* the status code of the last response sent (0: none yet)
  procs,      \* the recompute passes in flight (interleaved specification only)
  hist,       \* history of the interleaved passes: the Match collection when the
              \* first of them started, their users in order of start, and whether
              \* one started while another was in flight
  graphReq,   \* the requests the last handler sent to the graph store, in order
  decided,    \* history: for each pair, what the last acceptMatch, rejectMatch or
              \* unmatchUser saved for it
  job,        \* runMatchUpdateJob: where it is, the calls of updateMatchesForUser it
              \* made for each user, the users whose call threw
  handlers,   \* acceptMatch, rejectMatch and unmatchUser calls that await the store, each
              \* with the document it read, and the calls that have answered, in order
  chats       \* the Chat collection: the participants of every chat

vars == <<vents, nextVent, matches, edges, index, refreshes, resp, procs, hist,
          graphReq, decided, job, handlers, chats>>

(* ----------------------- updateMatchesForUser ------------------------- *)
\* Vent.find(...).lean() returns the documents in insertion order: by id here.
\* The nested loops of lines 58-61 visit (vent, otherVent) in this order.
ScanOrder(userVents, allOtherUsersVents) ==
  LET all == [k \in 1..(MaxVents * MaxVents) |->
                <<((k - 1) \div MaxVents) + 1, ((k - 1) % MaxVents) + 1>>]
      live == SelectSeq(all, LAMBDA pr :
                /\ \E v \in userVents : v.id = pr[1]
                /\ \E w \in allOtherUsersVents : w.id = pr[2])
  IN [k \in 1..Len(live) |->
        << CHOOSE v \in userVents : v.id = live[k][1],
           CHOOSE w \in allOtherUsersVents : w.id = live[k][2] >>]

\* a strict comparison in place of line 65
QualifiesStrictly(similarityScore) == similarityScore > Threshold

\* line 65
Qualifies(similarityScore) == similarityScore >= Threshold

\* the pair as the pass meets it, the user of the pass first
UnorderedPair(userId, matchUserId) == <<userId, matchUserId>>

\* line 70: the pair in a fixed order, the lower id first
OrderedPair(userId, matchUserId) ==
  IF userId < matchUserId THEN <<userId, matchUserId>> ELSE <<matchUserId, userId>>

\* lines 110-113: an entry of the same two vents, in either order, is in the operation
isDuplicate(existingVentPairs, vent, otherVent) ==
  \E vm \in existingVentPairs :
     \/ vm.vent1 = vent.id /\ vm.vent2 = otherVent.id
     \/ vm.vent1 = otherVent.id /\ vm.vent2 = vent.id

\* a fold that adds the whole similarity where lines 80 and 123 add half of it
FoldPairWhole(bulkOps, userId, vent, otherVent, similarityScore) ==
  LET pair == OrderedPair(userId, otherVent.userId)
      entry == [vent1 |-> vent.id, vent2 |-> otherVent.id, matchScore |-> similarityScore]
      at == {k \in 1..Len(bulkOps) : bulkOps[k].user1 = pair[1] /\ bulkOps[k].user2 = pair[2]}
  IN IF at = {}
       THEN Append(bulkOps,
              [user1 |-> pair[1], user2 |-> pair[2],
               inc |-> similarityScore,
               commonEmotions |-> {vent.emotion, otherVent.emotion},
               ventMatches |-> {entry}])
       ELSE LET k == CHOOSE j \in at : TRUE
                op == bulkOps[k]
            IN [bulkOps EXCEPT ![k] =
                 [op EXCEPT
                    !.ventMatches = IF isDuplicate(op.ventMatches, vent, otherVent)
                                      THEN @ ELSE @ \cup {entry},
                    !.inc = @ + similarityScore,
                    !.commonEmotions = @ \cup {vent.emotion, otherVent.emotion}]]

\* lines 73-125: fold one qualifying pair into the operations of the pass.
\* bulkOps is the Map's values in insertion order; an operation is
\*   filter {user1, user2}, $inc matchScore, $addToSet commonEmotions / ventMatches.
FoldPair(bulkOps, userId, vent, otherVent, similarityScore) ==
  LET pair == OrderedPair(userId, otherVent.userId)
      entry == [vent1 |-> vent.id, vent2 |-> otherVent.id, matchScore |-> similarityScore]
      at == {k \in 1..Len(bulkOps) : bulkOps[k].user1 = pair[1] /\ bulkOps[k].user2 = pair[2]}
  IN IF at = {}
       THEN Append(bulkOps,
              [user1 |-> pair[1], user2 |-> pair[2],
               inc |-> similarityScore \div 2,
               commonEmotions |-> {vent.emotion, otherVent.emotion},
               ventMatches |-> {entry}])
       ELSE LET k == CHOOSE j \in at : TRUE
                op == bulkOps[k]
            IN [bulkOps EXCEPT ![k] =
                 [op EXCEPT
                    !.ventMatches = IF isDuplicate(op.ventMatches, vent, otherVent)
                                      THEN @ ELSE @ \cup {entry},
                    !.inc = @ + similarityScore \div 2,
                    !.commonEmotions = @ \cup {vent.emotion, otherVent.emotion}]]

RECURSIVE BuildOps(_, _, _, _)
\* lines 56-128: the loops over ScanOrder, from position k on
BuildOps(scan, k, userId, bulkOps) ==
  IF k > Len(scan) THEN bulkOps
  ELSE LET vent == scan[k][1]
           otherVent == scan[k][2]
           similarityScore == cosineSimilarity(textToVector(vent.text),
                                               textToVector(otherVent.text))
       IN BuildOps(scan, k + 1, userId,
            IF Qualifies(similarityScore) /\ userId # otherVent.userId
              THEN FoldPair(bulkOps, userId, vent, otherVent, similarityScore)
              ELSE bulkOps)

\* an updateOne that inserts a missing record and leaves an existing one alone
InsertOnly(ms, op) ==
  IF \E m \in ms : m.user1 = op.user1 /\ m.user2 = op.user2 THEN ms
  ELSE ms \cup {[user1 |-> op.user1, user2 |-> op.user2,
                  matchScore |-> op.inc,
                  commonEmotions |-> op.commonEmotions,
                  ventMatches |-> op.ventMatches,
                  status |-> "pending",
                  user1Accepted |-> FALSE, user2Accepted |-> FALSE]}

\* an updateOne whose update sets status and flags where $setOnInsert stands
UpsertResetting(ms, op) ==
  LET found == {m \in ms : m.user1 = op.user1 /\ m.user2 = op.user2}
      old == IF found = {} THEN 0 ELSE (CHOOSE x \in found : TRUE).matchScore
      oldEmotions == UNION {m.commonEmotions : m \in found}
      oldEvidence == UNION {m.ventMatches : m \in found}
  IN (ms \ found) \cup {[user1 |-> op.user1, user2 |-> op.user2,
                         matchScore |-> old + op.inc,
                         commonEmotions |-> oldEmotions \cup op.commonEmotions,
                         ventMatches |-> oldEvidence \cup op.ventMatches,
                         status |-> "pending",
                         user1Accepted |-> FALSE, user2Accepted |-> FALSE]}

\* One updateOne of the bulk write, applied by the store in one step:
\* upsert on {user1, user2}; $setOnInsert status, $inc, $addToSet.
\* $addToSet adds a value that no element of the array equals, field by field.
UpsertOne(ms, op) ==
  LET found == {m \in ms : m.user1 = op.user1 /\ m.user2 = op.user2}
  IN IF found = {}
       THEN ms \cup {[user1 |-> op.user1, user2 |-> op.user2,
                      matchScore |-> op.inc,
                      commonEmotions |-> op.commonEmotions,
                      ventMatches |-> op.ventMatches,
                      status |-> "pending",
                      user1Accepted |-> FALSE, user2Accepted |-> FALSE]}
       ELSE LET m == CHOOSE x \in found : TRUE
            IN (ms \ {m}) \cup
               {[m EXCEPT !.matchScore = @ + op.inc,
                          !.commonEmotions = @ \cup op.commonEmotions,
                          !.ventMatches = @ \cup op.ventMatches]}

RECURSIVE bulkWrite(_, _, _)
\* Match.bulkWrite([...bulkOps.values()]): the operations in order, from k on
bulkWrite(ms, bulkOps, k) ==
  IF k > Len(bulkOps) THEN ms
  ELSE bulkWrite(UpsertOne(ms, bulkOps[k]), bulkOps, k + 1)

\* a deleteMany whose filter names user1 only
deleteManyAsUser1(ms, userId) == {m \in ms : m.user1 # userId}

\* line 45: Match.deleteMany({ $or: [{ user1: userId }, { user2: userId }] })
deleteMany(ms, userId) == {m \in ms : m.user1 # userId /\ m.user2 # userId}

\* updateMatchesForUser(userId), run to its end with nothing in between:
\* the Match collection it leaves, from the collection ms and the vents vs.
updateMatchesForUser(ms, vs, userId) ==
  LET userVents == {v \in vs : v.userId = userId}
      allOtherUsersVents == {v \in vs : v.userId # userId}
  IN IF userVents = {} THEN deleteMany(ms, userId)
     ELSE IF allOtherUsersVents = {} THEN ms
     ELSE bulkWrite(ms, BuildOps(ScanOrder(userVents, allOtherUsersVents), 1, userId, <<>>), 1)

(* ---------------------------- store faults ---------------------------- *)
\* What may go wrong in one call of updateMatchesForUser: nothing; a Vent.find
\* rejects (line 42 or 50); Match.deleteMany rejects (line 45); Match.bulkWrite fails
\* on its op-th operation (line 133).  A pass of the model holds at most one operation
\* for each other user.
Faults ==
  {[at |-> a, op |-> 0] : a \in {"none", "find", "deleteMany"}} \cup
  {[at |-> "bulkWrite", op |-> k] : k \in 1..(Cardinality(Users) - 1)}

NoFault == [at |-> "none", op |-> 0]

\* updateMatchesForUser(userId) under a fault, run to its end with nothing in between:
\* the Match collection it leaves and whether the call threw.  A rejected find or
\* deleteMany is not caught (lines 42-50); an error of bulkWrite is caught and logged
\* (lines 135-137).  bulkWrite is ordered: the operations before the failing one have
\* been applied, the failing one and those after it have not.
updateMatchesForUserUnder(ms, vs, userId, fault) ==
  LET userVents == {v \in vs : v.userId = userId}
      allOtherUsersVents == {v \in vs : v.userId # userId}
      bulkOps == BuildOps(ScanOrder(userVents, allOtherUsersVents), 1, userId, <<>>)
  IN IF fault.at = "find" THEN [matches |-> ms, threw |-> TRUE]
     ELSE IF userVents = {}
       THEN IF fault.at = "deleteMany" THEN [matches |-> ms, threw |-> TRUE]
            ELSE [matches |-> deleteMany(ms, userId), threw |-> FALSE]
     ELSE IF allOtherUsersVents = {} THEN [matches |-> ms, threw |-> FALSE]
     ELSE IF fault.at = "bulkWrite" /\ fault.op <= Len(bulkOps)
       THEN [matches |-> bulkWrite(ms, SubSeq(bulkOps, 1, fault.op - 1), 1),
             threw |-> FALSE]
     ELSE [matches |-> bulkWrite(ms, bulkOps, 1), threw |-> FALSE]

(* ---------------------------- graph store ----------------------------- *)
\* connectUsers: MERGE (u1)-[r:MATCHED]->(u2); an error is caught and logged.
\* ok says whether the graph store answers this call.
connectUsers(es, user1, user2, ok) == IF ok THEN es \cup {<<user1, user2>>} ELSE es

\* removeUserConnection: MATCH (u1)-[r:MATCHED]->(u2) DELETE r; an error is caught.
removeUserConnection(es, user1, user2, ok) == IF ok THEN es \ {<<user1, user2>>} ELSE es

\* the parameters of a session.run of connectUsers (lines 18-28)
ConnectRequest(user1, user2, similarityScore, commonEmotions) ==
  [op |-> "connectUsers", user1 |-> user1, user2 |-> user2,
   similarityScore |-> similarityScore, commonEmotions |-> commonEmotions]

\* the parameters of the session.run of removeUserConnection (lines 134-138)
RemoveRequest(user1, user2) ==
  [op |-> "removeUserConnection", user1 |-> user1, user2 |-> user2,
   similarityScore |-> 0, commonEmotions |-> {}]

\* getUserConnections lines 72-79: the users at the end of a path of two MATCHED edges
\* from userId (two different relationships; the nodes of a path need not differ) that
\* have no MATCHED edge with userId in either direction.  No BLOCKED edge is ever
\* written, so the second condition of the WHERE holds.
SecondDegree(es, userId) ==
  {recommended \in Users :
     /\ \E friend \in Users :
          /\ <<userId, friend>> \in es
          /\ <<friend, recommended>> \in es
          /\ <<userId, friend>> # <<friend, recommended>>
     /\ <<userId, recommended>> \notin es
     /\ <<recommended, userId>> \notin es}

\* getUserConnections lines 81-85 and 97-101, findUserMatches lines 43-46: the users
\* at the end of a MATCHED edge from userId
DirectMatches(es, userId) == {other \in Users : <<userId, other>> \in es}

\* getUserConnections (lines 66-123): the users of the records it returns.  ok says
\* whether the graph store answers; an error is caught and [] returned (lines 117-119).
getUserConnections(es, userId, recommended, ok) ==
  LET result == IF recommended THEN SecondDegree(es, userId)
                ELSE DirectMatches(es, userId)
  IN IF ~ok THEN {}
     ELSE IF result = {} THEN DirectMatches(es, userId)
     ELSE result

(* --------------------------- vent handlers ---------------------------- *)
\* the score the vector index reports for an entry (match.score), in thousandths
SimilarScores == {900}

\* What findSimilarVents returns to createVent: entries of the vector index, each
\* with metadata.userId and score, and for each whether the graph store answers the
\* connectUsers call made for it and the fault of the updateMatchesForUser call made
\* for it.  [] when the query fails.
SimilarVents(idx, answers, faults) ==
  UNION { [1..n -> [userId : idx, score : SimilarScores,
                    graphOk : answers, fault : faults]] : n \in 0..MaxSimilar }

RECURSIVE ConnectSimilar(_, _, _, _, _, _)
\* createVent lines 55-61: for each similar vent of another user, connectUsers
\* and then updateMatchesForUser(matchUserId).  st is [matches, edges, graphReq, threw];
\* a call of updateMatchesForUser that throws ends the loop.
ConnectSimilar(st, vs, userId, emotion, similarVents, k) ==
  IF k > Len(similarVents) \/ st.threw THEN st
  ELSE LET matchUserId == similarVents[k].userId
           pass == updateMatchesForUserUnder(st.matches, vs, matchUserId,
                                             similarVents[k].fault)
       IN ConnectSimilar(
            IF matchUserId # userId
              THEN [matches |-> pass.matches,
                    edges |-> connectUsers(st.edges, userId, matchUserId,
                                           similarVents[k].graphOk),
                    graphReq |-> Append(st.graphReq,
                                   ConnectRequest(userId, matchUserId,
                                                  similarVents[k].score, {emotion})),
                    threw |-> pass.threw]
              ELSE st,
            vs, userId, emotion, similarVents, k + 1)

\* createVent (lines 25-70), title, text and emotion given, the vent saved.  stored
\* says whether storeVentEmbedding reaches the vector index (its error is caught and
\* logged); fault is the fault of the final updateMatchesForUser(userId).  A call of
\* updateMatchesForUser that throws is caught at line 66.
createVent(userId, text, emotion, stored, similarVents, fault) ==
  LET newVent == [id |-> nextVent + 1, userId |-> userId,
                  text |-> text, emotion |-> emotion]
      vs == vents \cup {newVent}
      st == ConnectSimilar([matches |-> matches, edges |-> edges,
                            graphReq |-> <<>>, threw |-> FALSE],
                           vs, userId, emotion, similarVents, 1)
      own == IF st.threw THEN [matches |-> st.matches, threw |-> TRUE]
             ELSE updateMatchesForUserUnder(st.matches, vs, userId, fault)
  IN /\ vents' = vs
     /\ nextVent' = nextVent + 1
     /\ index' = (IF stored THEN index \cup {userId} ELSE index)
     /\ matches' = own.matches
     /\ edges' = st.edges
     /\ graphReq' = st.graphReq
     /\ resp' = (IF own.threw THEN 500 ELSE 201)
     /\ UNCHANGED <<refreshes, procs, hist, decided, job, handlers, chats>>

\* createVent with the stores, the vector index and the graph store answering every call
CreateVent ==
  /\ nextVent < MaxVents
  /\ \E req \in Requests :
       \E similarVents \in SimilarVents(index \cup {req.userId}, {TRUE}, {NoFault}) :
         createVent(req.userId, req.text, req.emotion, TRUE, similarVents, NoFault)

\* deleteVent (lines 133-152); fault is the fault of its updateMatchesForUser(userId)
deleteVent(userId, ventId, fault) ==
  LET vent == {v \in vents : v.id = ventId /\ v.userId = userId}
      pass == updateMatchesForUserUnder(matches, vents \ vent, userId, fault)
  IN IF vent = {}
       THEN /\ resp' = 404
            /\ graphReq' = <<>>
            /\ UNCHANGED <<vents, nextVent, matches, edges, index, refreshes, procs,
                           hist, decided, job, handlers, chats>>
       ELSE /\ vents' = vents \ vent
            /\ matches' = pass.matches
            /\ resp' = (IF pass.threw THEN 500 ELSE 200)
            /\ graphReq' = <<>>
            /\ UNCHANGED <<nextVent, edges, index, refreshes, procs, hist, decided, job, handlers, chats>>

DeleteVent ==
  \E userId \in Users, ventId \in 1..MaxVents : deleteVent(userId, ventId, NoFault)

(* --------------------------- match handlers --------------------------- *)
\* refreshMatches (lines 148-156); fault is the fault of its updateMatchesForUser
refreshMatches(userId, fault) ==
  LET pass == updateMatchesForUserUnder(matches, vents, userId, fault)
  IN /\ refreshes < MaxRefresh
     /\ refreshes' = refreshes + 1
     /\ matches' = pass.matches
     /\ resp' = (IF pass.threw THEN 500 ELSE 200)
     /\ graphReq' = <<>>
     /\ UNCHANGED <<vents, nextVent, edges, index, procs, hist, decided, job, handlers, chats>>

RefreshMatches == \E userId \in Users : refreshMatches(userId, NoFault)

\* Match.findById(matchId): a record is named by its pair of users here
findById(matchId) == {m \in matches : <<m.user1, m.user2>> = matchId}

MatchIds == {pr \in Users \X Users : pr[1] < pr[2]}

\* res.status(404): Match not found
NotFound ==
  /\ resp' = 404
  /\ graphReq' = <<>>
  /\ UNCHANGED <<vents, nextVent, matches, edges, index, refreshes, procs, hist,
                 decided, job, handlers, chats>>

\* res.status(403): Unauthorized action
Forbidden ==
  /\ resp' = 403
  /\ graphReq' = <<>>
  /\ UNCHANGED <<vents, nextVent, matches, edges, index, refreshes, procs, hist,
                 decided, job, handlers, chats>>

\* a handler in which an error of the graph store reaches the catch of the handler
OutcomeGraphFatal(saveOk, graphOk) == IF saveOk /\ graphOk THEN 200 ELSE 500

\* The status code of a match handler that has reached match.save(): an error of
\* match.save() reaches the catch of the handler (500); an error of the graph store is
\* caught inside connectUsers / removeUserConnection and never reaches the handler.
Outcome(saveOk, graphOk) == IF saveOk THEN 200 ELSE 500

\* what the Lifecycle Controller last saved for a pair: status, flags, and the score
\* the record had then
Decision(match) ==
  [status |-> match.status, user1Accepted |-> match.user1Accepted,
   user2Accepted |-> match.user2Accepted, matchScore |-> match.matchScore]

NoDecision ==
  [status |-> "none", user1Accepted |-> FALSE, user2Accepted |-> FALSE, matchScore |-> 0]

\* one accepted side in place of both
EitherAccepted(match) == match.user1Accepted \/ match.user2Accepted

\* acceptMatch lines 64-70: both sides accepted
BothAccepted(match) == match.user1Accepted /\ match.user2Accepted

\* a request that names the users in the opposite order and carries no payload
EdgeRequestReversed(match) == ConnectRequest(match.user2, match.user1, 0, {})

\* acceptMatch line 68: the connectUsers call for a record
EdgeRequest(match) ==
  ConnectRequest(match.user1, match.user2, match.matchScore, match.commonEmotions)

\* acceptMatch (lines 47-78).  connectUsers (line 68) is called before match.save()
\* (line 71); saveOk says whether match.save() succeeds.
acceptMatch(userId, matchId, graphOk, saveOk) ==
  IF findById(matchId) = {} THEN NotFound
  ELSE LET match == CHOOSE m \in findById(matchId) : TRUE
           flagged == IF match.user1 = userId THEN [match EXCEPT !.user1Accepted = TRUE]
                      ELSE [match EXCEPT !.user2Accepted = TRUE]
           saved == IF BothAccepted(flagged) THEN [flagged EXCEPT !.status = "accepted"]
                    ELSE flagged
       IN IF match.user1 # userId /\ match.user2 # userId
            THEN Forbidden
            ELSE /\ edges' = IF BothAccepted(flagged)
                               THEN connectUsers(edges, match.user1, match.user2, graphOk)
                               ELSE edges
                 /\ graphReq' = IF BothAccepted(flagged) THEN <<EdgeRequest(saved)>>
                                ELSE <<>>
                 /\ matches' = IF saveOk THEN (matches \ {match}) \cup {saved}
                               ELSE matches
                 /\ decided' = IF saveOk
                                 THEN [decided EXCEPT ![matchId] = Decision(saved)]
                                 ELSE decided
                 /\ resp' = Outcome(saveOk, graphOk)
                 /\ UNCHANGED <<vents, nextVent, index, refreshes, procs, hist, job, handlers, chats>>

AcceptMatch ==
  \E userId \in Users, matchId \in MatchIds, graphOk \in BOOLEAN, saveOk \in BOOLEAN :
    acceptMatch(userId, matchId, graphOk, saveOk)

\* rejectMatch lines 85-92: who may reject the record (no check of the actor is made)
MayReject(match, userId) == TRUE

\* a tail that sets the status and leaves the acceptance flags as they are
SaveThenRemoveKeepingFlags(match, status, graphOk, saveOk) ==
  LET saved == [match EXCEPT !.status = status]
  IN /\ matches' = IF saveOk THEN (matches \ {match}) \cup {saved} ELSE matches
     /\ decided' = IF saveOk
                     THEN [decided EXCEPT ![<<match.user1, match.user2>>] = Decision(saved)]
                     ELSE decided
     /\ edges' = IF saveOk
                   THEN removeUserConnection(edges, match.user1, match.user2, graphOk)
                   ELSE edges
     /\ graphReq' = IF saveOk THEN <<RemoveRequest(match.user1, match.user2)>> ELSE <<>>
     /\ resp' = Outcome(saveOk, graphOk)
     /\ UNCHANGED <<vents, nextVent, index, refreshes, procs, hist, job, handlers, chats>>

\* The tail shared by rejectMatch (lines 94-100) and unmatchUser (lines 125-133): set
\* the status, clear the flags, match.save(), then removeUserConnection.
SaveThenRemove(match, status, graphOk, saveOk) ==
  LET saved == [match EXCEPT !.status = status,
                             !.user1Accepted = FALSE, !.user2Accepted = FALSE]
  IN /\ matches' = IF saveOk THEN (matches \ {match}) \cup {saved} ELSE matches
     /\ decided' = IF saveOk
                     THEN [decided EXCEPT ![<<match.user1, match.user2>>] = Decision(saved)]
                     ELSE decided
     /\ edges' = IF saveOk
                   THEN removeUserConnection(edges, match.user1, match.user2, graphOk)
                   ELSE edges
     /\ graphReq' = IF saveOk THEN <<RemoveRequest(match.user1, match.user2)>> ELSE <<>>
     /\ resp' = Outcome(saveOk, graphOk)
     /\ UNCHANGED <<vents, nextVent, index, refreshes, procs, hist, job, handlers, chats>>

\* rejectMatch (lines 85-107)
rejectMatch(userId, matchId, graphOk, saveOk) ==
  IF findById(matchId) = {} THEN NotFound
  ELSE LET match == CHOOSE m \in findById(matchId) : TRUE
       IN IF ~MayReject(match, userId)
            THEN Forbidden
            ELSE SaveThenRemove(match, "rejected", graphOk, saveOk)

RejectMatch ==
  \E userId \in Users, matchId \in MatchIds, graphOk \in BOOLEAN, saveOk \in BOOLEAN :
    rejectMatch(userId, matchId, graphOk, saveOk)

\* a party check that lets every user through
AnyUser(match, userId) == TRUE

\* unmatchUser line 124: the requesting user is part of the match
IsParty(match, userId) == match.user1 = userId \/ match.user2 = userId

\* unmatchUser (lines 115-141)
unmatchUser(userId, matchId, graphOk, saveOk) ==
  IF findById(matchId) = {} THEN NotFound
  ELSE LET match == CHOOSE m \in findById(matchId) : TRUE
       IN IF IsParty(match, userId)
            THEN SaveThenRemove(match, "unmatched", graphOk, saveOk)
            ELSE Forbidden

UnmatchUser ==
  \E userId \in Users, matchId \in MatchIds, graphOk \in BOOLEAN, saveOk \in BOOLEAN :
    unmatchUser(userId, matchId, graphOk, saveOk)

(* --------------------------- specification ---------------------------- *)
Init ==
  /\ vents = {}
  /\ nextVent = 0
  /\ matches = {}
  /\ edges = {}
  /\ index = {}
  /\ refreshes = 0
  /\ resp = 0
  /\ procs = <<>>
  /\ hist = [base |-> {}, started |-> <<>>, overlapped |-> FALSE]
  /\ graphReq = <<>>
  /\ decided = [pair \in MatchIds |-> NoDecision]
  /\ job = [pc |-> "idle", called |-> [u \in Users |-> 0], failed |-> {}]
  /\ handlers = [inflight |-> <<>>, answered |-> <<>>]
  /\ chats = {}

\* The content handlers and the recompute passes they run, one request after the other.
Next ==
  \/ CreateVent
  \/ DeleteVent
  \/ RefreshMatches

Spec == Init /\ [][Next]_vars

\* createVent in the lifecycle specification: fewer vents, a vector index
\* and a graph store that may fail
CreateVentL ==
  /\ nextVent < MaxLifecycleVents
  /\ \E req \in Requests, stored \in BOOLEAN :
       \E similarVents \in
            SimilarVents(IF stored THEN index \cup {req.userId} ELSE index,
                         BOOLEAN, {NoFault}) :
         createVent(req.userId, req.text, req.emotion, stored, similarVents, NoFault)

\* The match handlers together with the content handlers, one request after the other.
NextLifecycle ==
  \/ CreateVentL
  \/ DeleteVent
  \/ RefreshMatches
  \/ AcceptMatch
  \/ RejectMatch
  \/ UnmatchUser

SpecLifecycle == Init /\ [][NextLifecycle]_vars

(* ------------- decisions, then content removed and posted ------------- *)
\* the match handlers with the Match store and the graph store answering
AcceptMatchOk ==
  \E userId \in Users, matchId \in MatchIds : acceptMatch(userId, matchId, TRUE, TRUE)

RejectMatchOk ==
  \E userId \in Users, matchId \in MatchIds : rejectMatch(userId, matchId, TRUE, TRUE)

UnmatchUserOk ==
  \E userId \in Users, matchId \in MatchIds : unmatchUser(userId, matchId, TRUE, TRUE)

\* createVent with every service answering and a vector index that returns no entry
CreateVentAlone ==
  /\ nextVent < MaxVents
  /\ \E req \in Requests :
       createVent(req.userId, req.text, req.emotion, TRUE, <<>>, NoFault)

\* The content handlers, with as many vents as in Spec, and the match handlers; every
\* service answers.
NextDecided ==
  \/ CreateVentAlone
  \/ DeleteVent
  \/ RefreshMatches
  \/ AcceptMatchOk
  \/ RejectMatchOk
  \/ UnmatchUserOk

SpecDecided == Init /\ [][NextDecided]_vars

(* ------------------- content handlers under faults -------------------- *)
CreateVentF ==
  /\ nextVent < MaxVents
  /\ \E req \in Requests, fault \in Faults :
       \E similarVents \in SimilarVents(index \cup {req.userId}, {TRUE}, Faults) :
         createVent(req.userId, req.text, req.emotion, TRUE, similarVents, fault)

RefreshMatchesF == \E userId \in Users, fault \in Faults : refreshMatches(userId, fault)

\* The content handlers with a Match and Vent store whose calls may fail in the
\* recompute passes of createVent and refreshMatches.
NextFaults ==
  \/ CreateVentF
  \/ DeleteVent
  \/ RefreshMatchesF

SpecFaults == Init /\ [][NextFaults]_vars

(* ------------------------ interleaved passes -------------------------- *)
\* updateMatchesForUser suspends at each await: Vent.find (line 42), Vent.find (line
\* 50), Match.deleteMany (line 45), Match.bulkWrite (line 133).  The store applies a
\* find, a deleteMany and each updateOne of a bulk write in one step; steps of other
\* passes may fall between the updateOnes of one bulk write.  An upsert whose filter is
\* the unique index {user1, user2} does not fail when another upsert inserted the
\* record first: the store retries it as an update.

RequestOrder ==
  << [userId |-> 1, text |-> TextA, emotion |-> "Anxious"],
     [userId |-> 2, text |-> TextA, emotion |-> "Sad"],
     [userId |-> 2, text |-> TextB, emotion |-> "Sad"],
     [userId |-> 3, text |-> TextC, emotion |-> "Anxious"] >>

RECURSIVE Posted(_, _, _, _)
\* The vents and Match Records after the createVent requests reqs, from the k-th on,
\* each followed by its updateMatchesForUser(userId); written says whether the bulk
\* writes of these passes reached the store (an error of bulkWrite is caught, line 135).
Posted(reqs, k, st, written) ==
  IF k > Len(reqs) THEN st
  ELSE LET newVent == [id |-> k, userId |-> reqs[k].userId,
                       text |-> reqs[k].text, emotion |-> reqs[k].emotion]
           vs == st.vents \cup {newVent}
       IN Posted(reqs, k + 1,
                 [vents |-> vs,
                  matches |-> IF written
                                THEN updateMatchesForUser(st.matches, vs, reqs[k].userId)
                                ELSE st.matches],
                 written)

\* The interleaved specification starts from a store that holds some of the requests
\* of the model, posted one after the other.
InitConc ==
  \E chosen \in SUBSET Requests, written \in BOOLEAN :
    LET reqs == SelectSeq(RequestOrder, LAMBDA r : r \in chosen)
        st == Posted(reqs, 1, [vents |-> {}, matches |-> {}], written)
    IN /\ Len(reqs) <= MaxVents
       /\ vents = st.vents
       /\ nextVent = Len(reqs)
       /\ matches = st.matches
       /\ edges = {}
       /\ index = {r.userId : r \in chosen}
       /\ refreshes = 0
       /\ resp = (IF chosen = {} THEN 0 ELSE 201)
       /\ procs = <<>>
       /\ hist = [base |-> st.matches, started |-> <<>>, overlapped |-> FALSE]
       /\ graphReq = <<>>
       /\ decided = [pair \in MatchIds |-> NoDecision]
       /\ job = [pc |-> "idle", called |-> [u \in Users |-> 0], failed |-> {}]
       /\ handlers = [inflight |-> <<>>, answered |-> <<>>]
       /\ chats = {}

Remove(seq, i) == [k \in 1..(Len(seq) - 1) |-> IF k < i THEN seq[k] ELSE seq[k + 1]]

\* updateMatchesForUser(userId) is called and its first Vent.find (line 42) is answered
PassStart(userId) ==
  LET userVents == {v \in vents : v.userId = userId}
  IN /\ Len(hist.started) < MaxPasses
     /\ procs' = Append(procs,
                   [userId |-> userId,
                    pc |-> IF userVents = {} THEN "deleteMany" ELSE "findOthers",
                    userVents |-> userVents,
                    bulkOps |-> <<>>])
     /\ hist' = [hist EXCEPT !.started = Append(@, userId),
                             !.overlapped = @ \/ procs # <<>>]
     /\ UNCHANGED <<vents, nextVent, matches, edges, index, refreshes, resp,
                    graphReq, decided, job, handlers, chats>>

\* line 45: the store applies the deleteMany of pass i, which then returns
PassDeleteMany(i) ==
  /\ procs[i].pc = "deleteMany"
  /\ matches' = deleteMany(matches, procs[i].userId)
  /\ procs' = Remove(procs, i)
  /\ UNCHANGED <<vents, nextVent, edges, index, refreshes, resp, hist,
                 graphReq, decided, job, handlers, chats>>

\* lines 50-128: the second Vent.find of pass i is answered and the pass builds its
\* operations; it returns when there is no other vent or no operation
PassFindOthers(i) ==
  LET allOtherUsersVents == {v \in vents : v.userId # procs[i].userId}
      bulkOps == BuildOps(ScanOrder(procs[i].userVents, allOtherUsersVents), 1,
                          procs[i].userId, <<>>)
  IN /\ procs[i].pc = "findOthers"
     /\ procs' = IF allOtherUsersVents = {} \/ bulkOps = <<>>
                   THEN Remove(procs, i)
                   ELSE [procs EXCEPT ![i] = [@ EXCEPT !.pc = "bulkWrite",
                                                       !.bulkOps = bulkOps]]
     /\ UNCHANGED <<vents, nextVent, matches, edges, index, refreshes, resp, hist,
                    graphReq, decided, job, handlers, chats>>

\* line 133: the store applies the next updateOne of the bulk write of pass i; the pass
\* returns after the last one
PassWriteOne(i) ==
  /\ procs[i].pc = "bulkWrite"
  /\ matches' = UpsertOne(matches, Head(procs[i].bulkOps))
  /\ procs' = IF Len(procs[i].bulkOps) = 1
                THEN Remove(procs, i)
                ELSE [procs EXCEPT ![i] = [@ EXCEPT !.bulkOps = Tail(@)]]
  /\ UNCHANGED <<vents, nextVent, edges, index, refreshes, resp, hist,
                 graphReq, decided, job, handlers, chats>>

NextConc ==
  \/ \E userId \in Users : PassStart(userId)
  \/ \E i \in 1..Len(procs) : PassDeleteMany(i)
  \/ \E i \in 1..Len(procs) : PassFindOthers(i)
  \/ \E i \in 1..Len(procs) : PassWriteOne(i)

SpecConc == InitConc /\ [][NextConc]_vars

(* -------------------------- runMatchUpdateJob -------------------------- *)
\* matchScheduler.js lines 6-32.  The job awaits User.find({}), then calls
\* updateMatchesForUser for every user inside users.map, each call running up to its
\* first await (the Vent.find of line 42) before the next is made, and awaits
\* Promise.allSettled of the calls.  A call that throws is caught for its user alone
\* (lines 19-22).

\* User.find({}) returns the users in insertion order
UserOrder == <<1, 2, 3>>

\* a users.map that stops after its first element
DispatchFirst(users) ==
  [k \in 1..1 |-> [userId |-> users[k], pc |-> "findOwn",
                   userVents |-> {}, bulkOps |-> <<>>]]

\* lines 14-16: users.map(async (user) => { await updateMatchesForUser(user._id) ... }):
\* one call in flight for each element, each waiting for its first Vent.find
Dispatch(users) ==
  [k \in 1..Len(users) |-> [userId |-> users[k], pc |-> "findOwn",
                            userVents |-> {}, bulkOps |-> <<>>]]

\* the cron schedule of line 35 fires: the job starts and awaits User.find (line 10)
JobStart ==
  /\ job.pc = "idle"
  /\ job' = [job EXCEPT !.pc = "findUsers"]
  /\ UNCHANGED <<vents, nextVent, matches, edges, index, refreshes, resp, procs, hist,
                 graphReq, decided, handlers, chats>>

\* User.find answers.  ok: the calls are made (lines 14-23) and the job awaits them;
\* otherwise the error is caught at line 29 and the run ends without a call.
JobUsers(ok) ==
  /\ job.pc = "findUsers"
  /\ IF ok
       THEN LET calls == Dispatch(UserOrder)
            IN /\ procs' = calls
               /\ job' = [job EXCEPT
                            !.pc = "waiting",
                            !.called = [u \in Users |->
                               Cardinality({k \in 1..Len(calls) : calls[k].userId = u})]]
       ELSE /\ procs' = procs
            /\ job' = [job EXCEPT !.pc = "done"]
  /\ UNCHANGED <<vents, nextVent, matches, edges, index, refreshes, resp, hist,
                 graphReq, decided, handlers, chats>>

\* line 42: the first Vent.find of pass i is answered
PassFindOwn(i) ==
  LET userVents == {v \in vents : v.userId = procs[i].userId}
  IN /\ procs[i].pc = "findOwn"
     /\ procs' = [procs EXCEPT ![i] =
                    [@ EXCEPT !.pc = IF userVents = {} THEN "deleteMany" ELSE "findOthers",
                              !.userVents = userVents]]
     /\ UNCHANGED <<vents, nextVent, matches, edges, index, refreshes, resp, hist,
                    graphReq, decided, job, handlers, chats>>

\* The Vent.find or Match.deleteMany that pass i awaits rejects: the call throws, the
\* job catches it for this user (lines 19-22); the other calls go on.
PassThrow(i) ==
  /\ procs[i].pc \in {"findOwn", "findOthers", "deleteMany"}
  /\ procs' = Remove(procs, i)
  /\ job' = [job EXCEPT !.failed = @ \cup {procs[i].userId}]
  /\ UNCHANGED <<vents, nextVent, matches, edges, index, refreshes, resp, hist,
                 graphReq, decided, handlers, chats>>

\* The bulk write of pass i fails on its next updateOne: the error is caught at line
\* 135, the operations left are not applied and the pass returns.
PassWriteFail(i) ==
  /\ procs[i].pc = "bulkWrite"
  /\ procs' = Remove(procs, i)
  /\ UNCHANGED <<vents, nextVent, matches, edges, index, refreshes, resp, hist,
                 graphReq, decided, job, handlers, chats>>

\* line 14: Promise.allSettled resolves when every call has returned or thrown; the
\* summary is logged (lines 25-27)
JobFinish ==
  /\ job.pc = "waiting"
  /\ procs = <<>>
  /\ job' = [job EXCEPT !.pc = "done"]
  /\ UNCHANGED <<vents, nextVent, matches, edges, index, refreshes, resp, procs, hist,
                 graphReq, decided, handlers, chats>>

NextJob ==
  \/ JobStart
  \/ \E ok \in BOOLEAN : JobUsers(ok)
  \/ \E i \in 1..Len(procs) : PassFindOwn(i)
  \/ \E i \in 1..Len(procs) : PassDeleteMany(i)
  \/ \E i \in 1..Len(procs) : PassFindOthers(i)
  \/ \E i \in 1..Len(procs) : PassWriteOne(i)
  \/ \E i \in 1..Len(procs) : PassThrow(i)
  \/ \E i \in 1..Len(procs) : PassWriteFail(i)
  \/ JobFinish

\* The store answers or rejects every call made to it, and the event loop runs every
\* callback that is ready: a pass that waits for an answer gets one, and the job goes
\* on when User.find has answered and when every call has settled.  The fairness of
\* PassFindOthers is weak fairness written out with its enabling condition, which is
\* that a pass waits at its second Vent.find.
JobFairness ==
  /\ WF_vars(\E ok \in BOOLEAN : JobUsers(ok))
  /\ WF_vars(\E i \in 1..Len(procs) : PassFindOwn(i))
  /\ WF_vars(\E i \in 1..Len(procs) : PassDeleteMany(i))
  /\ WF_vars(\E i \in 1..Len(procs) : PassWriteOne(i))
  /\ WF_vars(JobFinish)
  /\ \/ []<>(~\E i \in 1..Len(procs) : procs[i].pc = "findOthers")
     \/ []<><<\E i \in 1..Len(procs) : PassFindOthers(i)>>_vars

\* One run of the job over a store filled by earlier requests.
SpecJob == InitConc /\ [][NextJob]_vars /\ JobFairness

(* ----------------------- passes over drawn texts ---------------------- *)
\* a text of stopwords only, and a text in which the tokenizer finds no word
TextStop == <<"I", "the", "so">>
TextNone == <<>>

Texts == {TextA, TextB, TextC, TextStop, TextNone}

\* createVent requests of any user with any of the texts
TextRequests == {[userId |-> u, text |-> t, emotion |-> "Sad"] : u \in Users, t \in Texts}

\* The store holds the vents of some requests, posted one after the other, and no
\* Match Record (the bulk writes of their passes failed, line 135).
InitTexts ==
  \E n \in 0..MaxVents : \E reqs \in [1..n -> TextRequests] :
    LET st == Posted(reqs, 1, [vents |-> {}, matches |-> {}], FALSE)
    IN /\ vents = st.vents
       /\ nextVent = n
       /\ matches = st.matches
       /\ edges = {}
       /\ index = {reqs[k].userId : k \in 1..n}
       /\ refreshes = 0
       /\ resp = (IF n = 0 THEN 0 ELSE 201)
       /\ procs = <<>>
       /\ hist = [base |-> st.matches, started |-> <<>>, overlapped |-> FALSE]
       /\ graphReq = <<>>
       /\ decided = [pair \in MatchIds |-> NoDecision]
       /\ job = [pc |-> "idle", called |-> [u \in Users |-> 0], failed |-> {}]
       /\ handlers = [inflight |-> <<>>, answered |-> <<>>]
       /\ chats = {}

\* updateMatchesForUser(userId) is called and runs to its end with nothing in between
Recompute(userId) ==
  /\ Len(hist.started) < MaxTextPasses
  /\ matches' = updateMatchesForUser(matches, vents, userId)
  /\ hist' = [hist EXCEPT !.started = Append(@, userId)]
  /\ UNCHANGED <<vents, nextVent, edges, index, refreshes, resp, procs, graphReq,
                 decided, job, handlers, chats>>

NextTexts == \E userId \in Users : Recompute(userId)

SpecTexts == InitTexts /\ [][NextTexts]_vars

(* ---------------------- deletions among passes ----------------------- *)
\* deleteVent (ventController.js lines 133-152) among interleaved passes: its
\* Vent.findOneAndDelete (line 138) is answered; without a vent it answers 404; with
\* one, the vent is gone and updateMatchesForUser(userId) (line 145) is called,
\* which runs up to its first Vent.find.  The 200 follows when that pass has returned.
DeleteVentStart(userId, ventId) ==
  LET vent == {v \in vents : v.id = ventId /\ v.userId = userId}
  IN /\ nextVent - Cardinality(vents) < MaxDeletes
     /\ Len(hist.started) < MaxPasses
     /\ IF vent = {}
          THEN /\ resp' = 404
               /\ UNCHANGED <<vents, procs, hist>>
          ELSE /\ resp' = resp
               /\ vents' = vents \ vent
               /\ procs' = Append(procs, [userId |-> userId, pc |-> "findOwn",
                                          userVents |-> {}, bulkOps |-> <<>>])
               /\ hist' = [hist EXCEPT !.started = Append(@, userId),
                                       !.overlapped = @ \/ procs # <<>>]
     /\ UNCHANGED <<nextVent, matches, edges, index, refreshes, graphReq, decided, job,
                    handlers, chats>>

\* Interleaved passes, started by refreshMatches or by a deleteVent.
NextDelete ==
  \/ \E userId \in Users : PassStart(userId)
  \/ \E userId \in Users, ventId \in 1..MaxVents : DeleteVentStart(userId, ventId)
  \/ \E i \in 1..Len(procs) : PassFindOwn(i)
  \/ \E i \in 1..Len(procs) : PassDeleteMany(i)
  \/ \E i \in 1..Len(procs) : PassFindOthers(i)
  \/ \E i \in 1..Len(procs) : PassWriteOne(i)

SpecDelete == InitConc /\ [][NextDelete]_vars

(* --------------------- overlapping match handlers --------------------- *)
\* acceptMatch, rejectMatch and unmatchUser suspend at each await: Match.findById,
\* connectUsers, match.save(), removeUserConnection.  Steps of other handlers and
\* recompute passes may fall between them.  match.save() of a document that was read
\* from the store sends the store an update of that document which sets the paths the
\* handler has given a new value, and no other path.  The stores answer every call.

LifecycleOps == {"acceptMatch", "rejectMatch", "unmatchUser"}

\* the matchScore of the stored record of a pair, 0 when there is none
ScoreAt(ms, matchId) ==
  LET found == {m \in ms : <<m.user1, m.user2>> = matchId}
  IN IF found = {} THEN 0 ELSE (CHOOSE m \in found : TRUE).matchScore

\* The document as the handler has changed it when it reaches match.save():
\* acceptMatch lines 56-67, rejectMatch lines 94-96, unmatchUser lines 125-127.
Changed(op, userId, match) ==
  IF op = "acceptMatch"
    THEN LET flagged == IF match.user1 = userId
                          THEN [match EXCEPT !.user1Accepted = TRUE]
                          ELSE [match EXCEPT !.user2Accepted = TRUE]
         IN IF BothAccepted(flagged) THEN [flagged EXCEPT !.status = "accepted"]
            ELSE flagged
    ELSE [match EXCEPT !.status = IF op = "rejectMatch" THEN "rejected" ELSE "unmatched",
                       !.user1Accepted = FALSE, !.user2Accepted = FALSE]

\* a save that writes the whole document as the handler holds it
saveWhole(ms, read, changed) ==
  {IF m.user1 = read.user1 /\ m.user2 = read.user2 THEN changed ELSE m : m \in ms}

\* match.save() (lines 72, 97, 129): in the stored document of the one that was read,
\* set status, user1Accepted and user2Accepted where the handler changed them
save(ms, read, changed) ==
  {IF m.user1 = read.user1 /\ m.user2 = read.user2
     THEN [m EXCEPT
             !.status = IF changed.status # read.status THEN changed.status ELSE @,
             !.user1Accepted = IF changed.user1Accepted # read.user1Accepted
                                 THEN changed.user1Accepted ELSE @,
             !.user2Accepted = IF changed.user2Accepted # read.user2Accepted
                                 THEN changed.user2Accepted ELSE @]
     ELSE m : m \in ms}

\* the handler answers: res.status(code)
Answered(op, userId, matchId, code, read, stored) ==
  [op |-> op, userId |-> userId, matchId |-> matchId, resp |-> code,
   read |-> read, stored |-> stored]

\* A match handler is called and its Match.findById is answered (lines 52, 90, 120):
\* it answers 404 or 403, or changes the document it read and goes on to its next await
HandlerRead(op, userId, matchId) ==
  LET found == findById(matchId)
      match == CHOOSE m \in found : TRUE
      changed == Changed(op, userId, match)
      allowed == IF op = "rejectMatch" THEN MayReject(match, userId)
                 ELSE IsParty(match, userId)
  IN /\ Len(handlers.inflight) + Len(handlers.answered) < MaxHandlers
     /\ IF found = {} \/ ~allowed
          THEN /\ resp' = (IF found = {} THEN 404 ELSE 403)
               /\ handlers' = [handlers EXCEPT !.answered =
                                 Append(@, Answered(op, userId, matchId, resp', 0, 0))]
          ELSE /\ resp' = resp
               /\ handlers' = [handlers EXCEPT !.inflight =
                                 Append(@, [op |-> op, userId |-> userId,
                                            matchId |-> matchId,
                                            pc |-> IF op = "acceptMatch" /\ BothAccepted(changed)
                                                     THEN "connectUsers" ELSE "save",
                                            read |-> match, changed |-> changed,
                                            stored |-> 0])]
     /\ UNCHANGED <<vents, nextVent, matches, edges, index, refreshes, procs, hist,
                    graphReq, decided, job, chats>>

\* acceptMatch line 69: the graph store answers connectUsers
HandlerConnect(i) ==
  LET h == handlers.inflight[i]
  IN /\ h.pc = "connectUsers"
     /\ edges' = connectUsers(edges, h.read.user1, h.read.user2, TRUE)
     /\ graphReq' = <<EdgeRequest(h.changed)>>
     /\ handlers' = [handlers EXCEPT !.inflight[i].pc = "save"]
     /\ UNCHANGED <<vents, nextVent, matches, index, refreshes, resp, procs, hist,
                    decided, job, chats>>

\* The store applies match.save(); acceptMatch then answers 200 (line 73), rejectMatch
\* and unmatchUser go on to removeUserConnection (lines 100, 132)
HandlerSave(i) ==
  LET h == handlers.inflight[i]
      stored == ScoreAt(matches, h.matchId)
  IN /\ h.pc = "save"
     /\ matches' = save(matches, h.read, h.changed)
     /\ decided' = [decided EXCEPT ![h.matchId] =
                      Decision(CHOOSE m \in matches' : <<m.user1, m.user2>> = h.matchId)]
     /\ IF h.op = "acceptMatch"
          THEN /\ resp' = 200
               /\ handlers' = [inflight |-> Remove(handlers.inflight, i),
                               answered |-> Append(handlers.answered,
                                             Answered(h.op, h.userId, h.matchId, 200,
                                                      h.read.matchScore, stored))]
          ELSE /\ resp' = resp
               /\ handlers' = [handlers EXCEPT
                                 !.inflight[i].pc = "removeUserConnection",
                                 !.inflight[i].stored = stored]
     /\ UNCHANGED <<vents, nextVent, edges, index, refreshes, procs, hist, graphReq,
                    job, chats>>

\* rejectMatch line 100, unmatchUser line 132: the graph store answers
\* removeUserConnection and the handler answers 200
HandlerRemove(i) ==
  LET h == handlers.inflight[i]
  IN /\ h.pc = "removeUserConnection"
     /\ edges' = removeUserConnection(edges, h.read.user1, h.read.user2, TRUE)
     /\ graphReq' = <<RemoveRequest(h.read.user1, h.read.user2)>>
     /\ resp' = 200
     /\ handlers' = [inflight |-> Remove(handlers.inflight, i),
                     answered |-> Append(handlers.answered,
                                   Answered(h.op, h.userId, h.matchId, 200,
                                            h.read.matchScore, h.stored))]
     /\ UNCHANGED <<vents, nextVent, matches, index, refreshes, procs, hist,
                    decided, job, chats>>

\* The match handlers, step by step, and the recompute pass of refreshMatches.
NextOverlap ==
  \/ \E op \in LifecycleOps, userId \in Users, matchId \in MatchIds :
       HandlerRead(op, userId, matchId)
  \/ \E i \in 1..Len(handlers.inflight) : HandlerConnect(i)
  \/ \E i \in 1..Len(handlers.inflight) : HandlerSave(i)
  \/ \E i \in 1..Len(handlers.inflight) : HandlerRemove(i)
  \/ RefreshMatches

\* Overlapping match handlers over a store filled by earlier requests.
SpecOverlap == InitConc /\ [][NextOverlap]_vars

(* ------------------------------ startChat ----------------------------- *)
\* a request body without recipientId
NoRecipient == 0

\* a lookup that takes a record of the two users whatever its status
findOneOfAnyStatus(ms, userId, recipientId) ==
  {m \in ms : \/ m.user1 = userId /\ m.user2 = recipientId
              \/ m.user1 = recipientId /\ m.user2 = userId}

\* startChat lines 19-24: Match.findOne of an accepted record of the two users, in
\* either order
findOneAccepted(ms, userId, recipientId) ==
  {m \in ms : \/ m.user1 = userId /\ m.user2 = recipientId /\ m.status = "accepted"
              \/ m.user1 = recipientId /\ m.user2 = userId /\ m.status = "accepted"}

\* startChat (chatController.js lines 9-45).  A chat is held as the set of its
\* participants; ok says whether the stores answer (an error is caught at line 41).
startChat(userId, recipientId, ok) ==
  LET match == findOneAccepted(matches, userId, recipientId)
      chat == {c \in chats : {userId, recipientId} \subseteq c}
  IN /\ resp' = (IF recipientId = NoRecipient THEN 400
                 ELSE IF ~ok THEN 500
                 ELSE IF match = {} THEN 403
                 ELSE 200)
     /\ chats' = (IF resp' = 200 /\ chat = {}
                   THEN chats \cup {{userId, recipientId}}
                   ELSE chats)
     /\ graphReq' = <<>>
     /\ UNCHANGED <<vents, nextVent, matches, edges, index, refreshes, procs, hist,
                    decided, job, handlers>>

StartChat ==
  \E userId \in Users, recipientId \in Users \cup {NoRecipient}, ok \in BOOLEAN :
    startChat(userId, recipientId, ok)

\* The match handlers and startChat, one request after the other, over a store filled
\* by earlier requests; the Match store and the graph store answer the match handlers.
NextChat ==
  \/ AcceptMatchOk
  \/ RejectMatchOk
  \/ UnmatchUserOk
  \/ StartChat

SpecChat == InitConc /\ [][NextChat]_vars

(* ------------------------------- claims ------------------------------- *)
Involves(m, userId) == m.user1 = userId \/ m.user2 = userId

\* what C1 compares: score, emotions and number of evidence entries of u's records
Summary(ms, userId) ==
  { [user1 |-> m.user1, user2 |-> m.user2, matchScore |-> m.matchScore,
     commonEmotions |-> m.commonEmotions, evidence |-> Cardinality(m.ventMatches)] :
    m \in {x \in ms : Involves(x, userId)} }

\* C1 (as claimed): in every reachable state, for every user u, a second call of
\* updateMatchesForUser(u) right after a first one, with the vents unchanged, leaves
\* matchScore, commonEmotions and the number of evidence entries of every record
\* involving u as the first call left them.
C1_SecondPassChangesNothing ==
  \A u \in Users :
    LET first == updateMatchesForUser(matches, vents, u)
        second == updateMatchesForUser(first, vents, u)
    IN Summary(second, u) = Summary(first, u)

\* The content pairs (own vent, other user's vent) of userId and other that a pass for
\* userId counts, where Counts(similarity) says which similarities count.
CountedPairs(vs, userId, other, Counts(_)) ==
  { pr \in {v \in vs : v.userId = userId} \X {w \in vs : w.userId = other} :
      Counts(cosineSimilarity(textToVector(pr[1].text), textToVector(pr[2].text))) }

RECURSIVE HalfScores(_)
\* the sum of similarity / 2 over a set of content pairs
HalfScores(prs) ==
  IF prs = {} THEN 0
  ELSE LET pr == CHOOSE x \in prs : TRUE
       IN (cosineSimilarity(textToVector(pr[1].text), textToVector(pr[2].text)) \div 2)
          + HalfScores(prs \ {pr})

\* The record of the pair (userId, other) after a pass for userId in which exactly the
\* pairs prs contribute: the empty set when there was no record and nothing contributes.
Contributed(ms, userId, other, prs) ==
  LET pair == IF userId < other THEN <<userId, other>> ELSE <<other, userId>>
      old == {m \in ms : m.user1 = pair[1] /\ m.user2 = pair[2]}
      entries == { [vent1 |-> pr[1].id, vent2 |-> pr[2].id,
                    matchScore |-> cosineSimilarity(textToVector(pr[1].text),
                                                    textToVector(pr[2].text))] : pr \in prs }
      emotions == UNION { {pr[1].emotion, pr[2].emotion} : pr \in prs }
  IN IF prs = {} THEN old
     ELSE IF old = {}
       THEN {[user1 |-> pair[1], user2 |-> pair[2], matchScore |-> HalfScores(prs),
              commonEmotions |-> emotions, ventMatches |-> entries,
              status |-> "pending", user1Accepted |-> FALSE, user2Accepted |-> FALSE]}
       ELSE {[m EXCEPT !.matchScore = @ + HalfScores(prs),
                       !.commonEmotions = @ \cup emotions,
                       !.ventMatches = @ \cup entries] : m \in old}

\* A pass for userId, who holds vents, in which the pairs that Counts selects contribute
\* and no other pair does: the Match collection it must leave.
PassContributing(ms, vs, userId, Counts(_)) ==
  {m \in ms : ~Involves(m, userId)} \cup
  UNION { Contributed(ms, userId, other, CountedPairs(vs, userId, other, Counts)) :
          other \in Users \ {userId} }

HasVents(vs, userId) == \E v \in vs : v.userId = userId

StrictlyAbove(similarityScore) == similarityScore > Threshold
AtOrAbove(similarityScore) == similarityScore >= Threshold

C8_NoDuplicateEvidence ==
  \A m \in matches : \A e1 \in m.ventMatches, e2 \in m.ventMatches :
    {e1.vent1, e1.vent2} = {e2.vent1, e2.vent2} => e1 = e2

\* C9: a recompute pass for a user without vents, run by refreshMatches or by the
\* deleteVent that removed the user's last vent, leaves exactly the records that do not
\* involve the user, each as it was.
C9_NoContentClearsMatches ==
  [][\A u \in Users :
       (/\ ~HasVents(vents', u)
        /\ \/ refreshMatches(u, NoFault)
           \/ \E ventId \in 1..MaxVents : deleteVent(u, ventId, NoFault) /\ resp' = 200)
         => matches' = {m \in matches : ~Involves(m, u)}]_vars

\* C9 witness: a user who posted holds no vent any more, the last request succeeded, no
\* record involves the user, and a record of another pair is still there.
C9_Witness ==
  \E u \in index :
    /\ ~HasVents(vents, u)
    /\ resp = 200
    /\ ~\E m \in matches : Involves(m, u)
    /\ matches # {}

\* C3: a Match Record has status accepted exactly when both acceptance flags are true,
\* and a step that sets an acceptance flag of a pending record without making both
\* flags true leaves the record pending.
C3_AcceptedIffBothFlags ==
  /\ [](\A m \in matches :
          m.status = "accepted" <=> (m.user1Accepted /\ m.user2Accepted))
  /\ [][\A m \in matches, n \in matches' :
          (/\ n.user1 = m.user1 /\ n.user2 = m.user2
           /\ m.status = "pending"
           /\ \/ ~m.user1Accepted /\ n.user1Accepted
              \/ ~m.user2Accepted /\ n.user2Accepted
           /\ ~(n.user1Accepted /\ n.user2Accepted))
            => n.status = "pending"]_vars

\* C3 witness: a pending record that one side has accepted, after a successful request
C3_Witness ==
  /\ resp = 200
  /\ \E m \in matches :
       m.status = "pending" /\ (m.user1Accepted # m.user2Accepted)

Outsider(userId, matchId) == userId # matchId[1] /\ userId # matchId[2]

\* C4 (as claimed): rejectMatch by a user who is neither user1 nor user2 of an existing
\* record answers 403 and leaves the Match collection and the graph store as they were.
C4_RejectByOutsiderFails ==
  [][\A userId \in Users, matchId \in MatchIds, graphOk \in BOOLEAN, saveOk \in BOOLEAN :
       (/\ findById(matchId) # {}
        /\ Outsider(userId, matchId)
        /\ rejectMatch(userId, matchId, graphOk, saveOk))
         => resp' = 403 /\ matches' = matches /\ edges' = edges]_vars

\* C5: acceptMatch and unmatchUser by a user who is neither user1 nor user2 of an
\* existing record answer 403 and leave the Match collection and the graph store as
\* they were.
C5_AcceptUnmatchByOutsiderFail ==
  [][\A userId \in Users, matchId \in MatchIds, graphOk \in BOOLEAN, saveOk \in BOOLEAN :
       (/\ findById(matchId) # {}
        /\ Outsider(userId, matchId)
        /\ \/ acceptMatch(userId, matchId, graphOk, saveOk)
           \/ unmatchUser(userId, matchId, graphOk, saveOk))
         => resp' = 403 /\ matches' = matches /\ edges' = edges]_vars

\* C5 witness: a request was refused with 403 while a record and an edge exist
C5_Witness ==
  /\ resp = 403
  /\ \E m \in matches : m.status = "accepted" /\ <<m.user1, m.user2>> \in edges

AllowedTransitions ==
  { <<"pending", "accepted">>, <<"pending", "rejected">>, <<"accepted", "unmatched">> }

\* C6 (as claimed): a step of acceptMatch, rejectMatch or unmatchUser that changes the
\* status of a record changes it from pending to accepted, from pending to rejected or
\* from accepted to unmatched.
C6_OnlyAllowedTransitions ==
  [][(AcceptMatch \/ RejectMatch \/ UnmatchUser)
       => \A m \in matches, n \in matches' :
            (n.user1 = m.user1 /\ n.user2 = m.user2 /\ n.status # m.status)
              => <<m.status, n.status>> \in AllowedTransitions]_vars

\* C2: at most one Match Record per unordered pair of users, and user1 < user2 in every
\* record, in every state of the interleaved passes.
C2_OneRecordPerPair ==
  /\ \A m \in matches : m.user1 < m.user2
  /\ \A m \in matches, n \in matches :
       {m.user1, m.user2} = {n.user1, n.user2} => m = n

\* C2 witness: passes of both users of a pair overlapped and the pair has its record
C2_Witness ==
  /\ procs = <<>>
  /\ hist.overlapped
  /\ \E m \in matches :
       /\ \E k \in 1..Len(hist.started) : hist.started[k] = m.user1
       /\ \E k \in 1..Len(hist.started) : hist.started[k] = m.user2
       /\ ~\E b \in hist.base : b.user1 = m.user1 /\ b.user2 = m.user2

\* the operations a pass for userId builds from the vents vs
PassOps(vs, userId) ==
  LET userVents == {v \in vs : v.userId = userId}
      allOtherUsersVents == {v \in vs : v.userId # userId}
  IN IF userVents = {} \/ allOtherUsersVents = {} THEN <<>>
     ELSE BuildOps(ScanOrder(userVents, allOtherUsersVents), 1, userId, <<>>)

\* the matchScore increment of a pass for userId on the record of the pair
IncOf(vs, userId, pair) ==
  LET ops == PassOps(vs, userId)
      at == {k \in 1..Len(ops) : ops[k].user1 = pair[1] /\ ops[k].user2 = pair[2]}
  IN IF at = {} THEN 0 ELSE ops[CHOOSE k \in at : TRUE].inc

RECURSIVE SumIncs(_, _, _, _)
SumIncs(vs, users, k, pair) ==
  IF k > Len(users) THEN 0
  ELSE IncOf(vs, users[k], pair) + SumIncs(vs, users, k + 1, pair)

ScoreOf(ms, pair) ==
  LET found == {m \in ms : m.user1 = pair[1] /\ m.user2 = pair[2]}
  IN IF found = {} THEN 0 ELSE (CHOOSE m \in found : TRUE).matchScore

RECURSIVE OneAfterTheOther(_, _, _, _)
\* the passes of users, from the k-th on, each run to its end before the next starts
OneAfterTheOther(ms, vs, users, k) ==
  IF k > Len(users) THEN ms
  ELSE OneAfterTheOther(updateMatchesForUser(ms, vs, users[k]), vs, users, k + 1)

Reverse(seq) == [k \in 1..Len(seq) |-> seq[Len(seq) + 1 - k]]

\* C10: when the interleaved passes have all returned, the matchScore of every pair is
\* its score before they started plus the increments of all of them, and the Match
\* collection is the one the same passes leave when run one after the other, in the
\* order they started and in the opposite order.
C10_InterleavedPassesAdd ==
  procs = <<>> =>
    /\ \A pair \in MatchIds :
         ScoreOf(matches, pair)
           = ScoreOf(hist.base, pair) + SumIncs(vents, hist.started, 1, pair)
    /\ matches = OneAfterTheOther(hist.base, vents, hist.started, 1)
    /\ matches = OneAfterTheOther(hist.base, vents, Reverse(hist.started), 1)

\* C10 witness: passes of the two users of a pair overlapped, both added to the pair's
\* score, and the pair had no record when they started
C10_Witness ==
  /\ procs = <<>>
  /\ hist.overlapped
  /\ \E pair \in MatchIds :
       /\ ScoreOf(hist.base, pair) = 0
       /\ ScoreOf(matches, pair) > 0
       /\ \E j \in 1..Len(hist.started), k \in 1..Len(hist.started) :
            /\ j # k
            /\ IncOf(vents, hist.started[j], pair) > 0
            /\ IncOf(vents, hist.started[k], pair) > 0

\* the bulk write of a pass for userId under fault fails: the pass has an operation
\* at the place of the fault
BulkWriteFails(vs, userId, fault) ==
  fault.at = "bulkWrite" /\ fault.op <= Len(PassOps(vs, userId))

\* C11 (as claimed): when the bulk write of the pass of refreshMatches fails, the call
\* of updateMatchesForUser throws and refreshMatches answers 500.
C11_BulkFailureReachesCaller ==
  [][\A u \in Users, fault \in Faults :
       (refreshMatches(u, fault) /\ BulkWriteFails(vents, u, fault))
         => resp' = 500]_vars

\* C12 (as claimed): a pass whose bulk write fails on one of its operations leaves the
\* Match collection as it was.
C12_FailedBulkWriteChangesNothing ==
  [][\A u \in Users, fault \in Faults :
       (refreshMatches(u, fault) /\ BulkWriteFails(vents, u, fault))
         => matches' = matches]_vars

\* C13 (as claimed): a createVent that has saved its vent answers 201, whatever fails
\* afterwards.
C13_SavedVentAnswers201 ==
  [][(nextVent' = nextVent + 1 /\ vents' # vents) => resp' = 201]_vars

\* the record of the pair of m in the collection ms has the given status and flags
Holds(ms, m, status, user1Accepted, user2Accepted) ==
  \E n \in ms :
    /\ n.user1 = m.user1 /\ n.user2 = m.user2
    /\ n.status = status
    /\ n.user1Accepted = user1Accepted
    /\ n.user2Accepted = user2Accepted

\* C14: acceptMatch, rejectMatch and unmatchUser by a party of an existing record,
\* with match.save() succeeding and the graph store failing, answer 200 and leave the
\* record with the new status and flags: acceptMatch with the flag of the caller set
\* and status accepted when both flags are then true, rejectMatch with status rejected
\* and unmatchUser with status unmatched, both flags cleared.
C14_GraphFailureNotFatal ==
  [][\A userId \in Users, matchId \in MatchIds : \A m \in findById(matchId) :
       (userId = m.user1 \/ userId = m.user2) =>
         /\ acceptMatch(userId, matchId, FALSE, TRUE) =>
              /\ resp' = 200
              /\ LET a1 == m.user1Accepted \/ userId = m.user1
                     a2 == m.user2Accepted \/ userId = m.user2
                 IN Holds(matches', m, IF a1 /\ a2 THEN "accepted" ELSE m.status, a1, a2)
         /\ rejectMatch(userId, matchId, FALSE, TRUE) =>
              resp' = 200 /\ Holds(matches', m, "rejected", FALSE, FALSE)
         /\ unmatchUser(userId, matchId, FALSE, TRUE) =>
              resp' = 200 /\ Holds(matches', m, "unmatched", FALSE, FALSE)]_vars

\* C14 witness: the last request was the accept that made both flags true, it asked
\* the graph store for the edge, the edge is not there, and the record is accepted
C14_Witness ==
  \E m \in matches :
    /\ m.status = "accepted"
    /\ resp = 200
    /\ graphReq = <<EdgeRequest(m)>>
    /\ <<m.user1, m.user2>> \notin edges

\* C15 (as claimed): after a rejectMatch or unmatchUser that answers 200, with the
\* graph store answering, no edge joins the two users of the record in either
\* direction.
C15_NoEdgeAfterRejectOrUnmatch ==
  [][\A userId \in Users, matchId \in MatchIds : \A m \in findById(matchId) :
       (/\ \/ rejectMatch(userId, matchId, TRUE, TRUE)
           \/ unmatchUser(userId, matchId, TRUE, TRUE)
        /\ resp' = 200)
         => /\ <<m.user1, m.user2>> \notin edges'
            /\ <<m.user2, m.user1>> \notin edges']_vars

\* C16: acceptMatch by a party of an existing record sends the graph store one
\* connectUsers request, from user1 to user2 with the matchScore and commonEmotions of
\* the record, when both flags are then true, and the edge from user1 to user2 exists
\* afterwards if the graph store answers; it sends no request and leaves the graph
\* store as it was when only one flag is then true.
C16_AcceptByBothWritesEdge ==
  [][\A userId \in Users, matchId \in MatchIds, graphOk \in BOOLEAN, saveOk \in BOOLEAN :
       \A m \in findById(matchId) :
         ((userId = m.user1 \/ userId = m.user2)
            /\ acceptMatch(userId, matchId, graphOk, saveOk))
           => IF (m.user1Accepted \/ userId = m.user1)
                   /\ (m.user2Accepted \/ userId = m.user2)
                THEN /\ graphReq' = <<ConnectRequest(m.user1, m.user2, m.matchScore,
                                                     m.commonEmotions)>>
                     /\ graphOk => <<m.user1, m.user2>> \in edges'
                ELSE /\ graphReq' = <<>>
                     /\ edges' = edges]_vars

\* C16 witness: the last request was the accept that made both flags true and the edge
\* from user1 to user2 is in the graph store
C16_Witness ==
  \E m \in matches :
    /\ m.status = "accepted"
    /\ resp = 200
    /\ graphReq = <<ConnectRequest(m.user1, m.user2, m.matchScore, m.commonEmotions)>>
    /\ <<m.user1, m.user2>> \in edges
    /\ decided[<<m.user1, m.user2>>].status = "accepted"

\* C17 (as claimed): an acceptMatch whose match.save() fails has sent no request to the
\* graph store and has left the graph store as it was.
C17_NoEdgeWithoutSave ==
  [][\A userId \in Users, matchId \in MatchIds, graphOk \in BOOLEAN :
       \A m \in findById(matchId) :
         ((userId = m.user1 \/ userId = m.user2)
            /\ acceptMatch(userId, matchId, graphOk, FALSE)
            /\ resp' = 500)
           => graphReq' = <<>> /\ edges' = edges]_vars

\* C18: a step of createVent, deleteVent or refreshMatches leaves the status and the
\* flags of every record it keeps, and takes nothing from its matchScore,
\* commonEmotions and ventMatches; a refreshMatches of a user who holds vents adds the
\* increment of the pass to the matchScore of every record of the user, whatever the
\* status of the record.
C18_PassKeepsStatusAndFlags ==
  /\ [][(nextVent' # nextVent \/ vents' # vents \/ refreshes' # refreshes)
          => \A m \in matches, n \in matches' :
               (n.user1 = m.user1 /\ n.user2 = m.user2)
                 => /\ n.status = m.status
                    /\ n.user1Accepted = m.user1Accepted
                    /\ n.user2Accepted = m.user2Accepted
                    /\ n.matchScore >= m.matchScore
                    /\ m.commonEmotions \subseteq n.commonEmotions
                    /\ m.ventMatches \subseteq n.ventMatches]_vars
  /\ [][\A u \in Users :
          (refreshMatches(u, NoFault) /\ HasVents(vents, u))
            => \A m \in matches :
                 Involves(m, u)
                   => \E n \in matches' :
                        /\ n.user1 = m.user1 /\ n.user2 = m.user2
                        /\ n.status = m.status
                        /\ n.matchScore
                             = m.matchScore + IncOf(vents, u, <<m.user1, m.user2>>)]_vars

\* C18 witness: a record that is accepted, rejected or unmatched as the match handlers
\* last saved it, with a higher matchScore than it had then
C18_Witness ==
  \E m \in matches :
    /\ m.status \in {"accepted", "rejected", "unmatched"}
    /\ decided[<<m.user1, m.user2>>].status = m.status
    /\ m.matchScore > decided[<<m.user1, m.user2>>].matchScore

\* C19 (as claimed): a record of a pair for which the match handlers have saved a status
\* and flags holds that status and those flags.
C19_DecisionsSurviveContentChanges ==
  \A m \in matches :
    LET last == decided[<<m.user1, m.user2>>]
    IN last.status # "none"
         => /\ m.status = last.status
            /\ m.user1Accepted = last.user1Accepted
            /\ m.user2Accepted = last.user2Accepted

\* C20: in a run of runMatchUpdateJob whose User.find has answered, one call of
\* updateMatchesForUser has been made for every user, and none is made later; the run
\* ends, whichever calls throw, and when it has ended no call is in flight.  (A run
\* whose User.find fails knows no user and ends without a call.)
C20_JobCallsEveryUserOnce ==
  /\ [](job.pc = "waiting" => \A u \in Users : job.called[u] = 1)
  /\ []((job.pc = "done" /\ \E u \in Users : job.called[u] > 0)
          => \A u \in Users : job.called[u] = 1)
  /\ [][job.pc = "waiting" => job.called' = job.called]_vars
  /\ [](job.pc = "done" => procs = <<>>)
  /\ (job.pc = "findUsers") ~> (job.pc = "done")

\* C20 witness: the run has ended, the call of one user threw, the call of another
\* returned, and the Match collection is not as it was before the run
C20_Witness ==
  /\ job.pc = "done"
  /\ job.failed # {}
  /\ \E u \in Users : job.called[u] = 1 /\ u \notin job.failed
  /\ matches # hist.base

\* the similarity of the texts of two vents
Sim(v, w) == cosineSimilarity(textToVector(v.text), textToVector(w.text))

RECURSIVE Scores(_)
\* the sum of the similarities of a set of content pairs
Scores(prs) ==
  IF prs = {} THEN 0
  ELSE LET pr == CHOOSE x \in prs : TRUE
       IN Sim(pr[1], pr[2]) + Scores(prs \ {pr})

\* the content pairs (vent of a, vent of b) of similarity 0.3 or above
QualifyingPairs(vs, a, b) ==
  {pr \in {v \in vs : v.userId = a} \X {w \in vs : w.userId = b} :
     Sim(pr[1], pr[2]) >= Threshold}

\* C21: when a pair of users had no record and one recompute pass has run for each of
\* the two, the vents unchanged, the record of the pair has as matchScore the sum of the
\* similarities of the qualifying content pairs of the two users, and the record exists
\* when there is such a content pair.
C21_TwoPassesSumTheScores ==
  \A pair \in MatchIds :
    (/\ hist.started \in {<<pair[1], pair[2]>>, <<pair[2], pair[1]>>}
     /\ ~\E b \in hist.base : b.user1 = pair[1] /\ b.user2 = pair[2])
      => LET prs == QualifyingPairs(vents, pair[1], pair[2])
         IN /\ \A m \in matches :
                 (m.user1 = pair[1] /\ m.user2 = pair[2]) => m.matchScore = Scores(prs)
            /\ prs # {} => \E m \in matches : m.user1 = pair[1] /\ m.user2 = pair[2]

\* C21 witness: one pass has run for each user of a pair with two qualifying content
\* pairs of different similarity, and the record holds the sum 1.0 + 0.3
C21_Witness ==
  \E m \in matches :
    /\ hist.started \in {<<m.user1, m.user2>>, <<m.user2, m.user1>>}
    /\ Cardinality(QualifyingPairs(vents, m.user1, m.user2)) = 2
    /\ m.matchScore = 1300

\* C22: for the texts of any two vents the similarity is the same in both orders, so
\* that it qualifies in both or in neither, and the pass of the one user holds the
\* content pair in the evidence of its operations exactly when the pass of the other
\* user does.
C22_SimilarityIsSymmetric ==
  \A v \in vents, w \in vents :
    /\ Sim(v, w) = Sim(w, v)
    /\ Qualifies(Sim(v, w)) <=> Qualifies(Sim(w, v))
    /\ v.userId # w.userId =>
         ((\E k \in 1..Len(PassOps(vents, v.userId)) :
             \E e \in PassOps(vents, v.userId)[k].ventMatches :
               e.vent1 = v.id /\ e.vent2 = w.id)
          <=> (\E k \in 1..Len(PassOps(vents, w.userId)) :
                 \E e \in PassOps(vents, w.userId)[k].ventMatches :
                   e.vent1 = w.id /\ e.vent2 = v.id))

\* C22 witness: passes of both users of a pair have run, their record holds the same
\* content pair in both orders, and two vents of different magnitude do not qualify
C22_Witness ==
  /\ \E m \in matches :
       /\ \E j \in 1..Len(hist.started) : hist.started[j] = m.user1
       /\ \E k \in 1..Len(hist.started) : hist.started[k] = m.user2
       /\ \E e1 \in m.ventMatches, e2 \in m.ventMatches :
            e1.vent1 = e2.vent2 /\ e1.vent2 = e2.vent1 /\ e1.matchScore = Threshold
  /\ \E v \in vents, w \in vents : v.text = TextA /\ w.text = TextC

\* the vents whose text holds no word that is not a stopword
WithoutWords(vs) == {v \in vs : DOMAIN textToVector(v.text) = {}}

\* C23: a text that is empty or holds stopwords only has the empty vector; the
\* similarity of the empty vector and any vector is 0, in both orders; no evidence entry
\* of a Match Record names a vent with the empty vector, and every Match Record holds
\* an evidence entry of two vents with words.
C23_EmptyVectorNeverMatches ==
  /\ \A v \in vents : v.text \in {TextStop, TextNone} => v \in WithoutWords(vents)
  /\ \A v \in WithoutWords(vents), w \in vents : Sim(v, w) = 0 /\ Sim(w, v) = 0
  /\ \A m \in matches :
       /\ \A e \in m.ventMatches :
            \A v \in WithoutWords(vents) : e.vent1 # v.id /\ e.vent2 # v.id
       /\ \E e \in m.ventMatches :
            \E v \in vents \ WithoutWords(vents), w \in vents \ WithoutWords(vents) :
              e.vent1 = v.id /\ e.vent2 = w.id

\* C23 witness: a pass has run for a user whose only vent has no word; other users
\* hold vents, a record of another pair exists, and none involves this user
C23_Witness ==
  \E v \in WithoutWords(vents) :
    /\ \A w \in vents : w.userId = v.userId => w = v
    /\ \E k \in 1..Len(hist.started) : hist.started[k] = v.userId
    /\ matches # {}
    /\ ~\E m \in matches : Involves(m, v.userId)

\* C24: a step of acceptMatch, rejectMatch or unmatchUser other than match.save()
\* leaves the Match collection as it is, and match.save() leaves every record other
\* than the targeted one as it is and the targeted one with the matchScore,
\* commonEmotions and ventMatches the store held just before, whatever a recompute pass
\* wrote to the record since the handler read it.
C24_HandlersKeepEvidence ==
  [][/\ (\/ \E op \in LifecycleOps, userId \in Users, matchId \in MatchIds :
               HandlerRead(op, userId, matchId)
          \/ \E i \in 1..Len(handlers.inflight) : HandlerConnect(i) \/ HandlerRemove(i))
          => matches' = matches
     /\ \A i \in 1..Len(handlers.inflight) :
          HandlerSave(i) =>
            /\ Cardinality(matches') = Cardinality(matches)
            /\ \A m \in matches :
                 IF <<m.user1, m.user2>> = handlers.inflight[i].matchId
                   THEN \E n \in matches' :
                          /\ n.user1 = m.user1 /\ n.user2 = m.user2
                          /\ n.matchScore = m.matchScore
                          /\ n.commonEmotions = m.commonEmotions
                          /\ n.ventMatches = m.ventMatches
                   ELSE m \in matches']_vars

\* C24 witness: a handler has answered 200 whose record had a higher matchScore in the
\* store when it saved than when it read it; the record holds that score or more, and
\* the status or a flag the handler set
C24_Witness ==
  \E k \in 1..Len(handlers.answered) :
    LET a == handlers.answered[k]
    IN /\ a.resp = 200
       /\ a.stored > a.read
       /\ \E m \in matches :
            /\ <<m.user1, m.user2>> = a.matchId
            /\ m.matchScore >= a.stored
            /\ m.status # "pending" \/ m.user1Accepted \/ m.user2Accepted

\* the calls that have answered are accepts of the record m, one by each of its users,
\* both answered 200
BothAcceptsAnswered(m) ==
  /\ Len(handlers.answered) = 2
  /\ \A k \in 1..2 :
       /\ handlers.answered[k].op = "acceptMatch"
       /\ handlers.answered[k].matchId = <<m.user1, m.user2>>
       /\ handlers.answered[k].resp = 200
  /\ {handlers.answered[k].userId : k \in 1..2} = {m.user1, m.user2}

\* C27 (as claimed): when no match handler is in flight, a record that both of its users
\* have accepted, each in a call that answered 200, has status accepted, and no record
\* has both acceptance flags true and status pending.
C27_BothAcceptsEndAccepted ==
  handlers.inflight = <<>> =>
    \A m \in matches :
      /\ BothAcceptsAnswered(m) => m.status = "accepted"
      /\ (m.user1Accepted /\ m.user2Accepted) => m.status # "pending"

\* C25: a rejectMatch that answers 200 leaves the record rejected and an unmatchUser
\* that answers 200 leaves it unmatched, both with both acceptance flags false; an
\* acceptMatch on a rejected or unmatched record with both flags false leaves at most
\* one flag true and the status as it was.
C25_RejectAndUnmatchClearFlags ==
  [][\A matchId \in MatchIds : \A m \in findById(matchId) :
       /\ resp' = 200 =>
            \A userId \in Users, graphOk \in BOOLEAN :
              /\ rejectMatch(userId, matchId, graphOk, TRUE)
                   => \A n \in matches' :
                        (n.user1 = m.user1 /\ n.user2 = m.user2)
                          => n.status = "rejected" /\ ~n.user1Accepted /\ ~n.user2Accepted
              /\ unmatchUser(userId, matchId, graphOk, TRUE)
                   => \A n \in matches' :
                        (n.user1 = m.user1 /\ n.user2 = m.user2)
                          => n.status = "unmatched" /\ ~n.user1Accepted /\ ~n.user2Accepted
       /\ (m.status \in {"rejected", "unmatched"} /\ ~m.user1Accepted /\ ~m.user2Accepted) =>
            \A userId \in Users, graphOk \in BOOLEAN, saveOk \in BOOLEAN :
              acceptMatch(userId, matchId, graphOk, saveOk)
                => \A n \in matches' :
                     (n.user1 = m.user1 /\ n.user2 = m.user2)
                       => ~(n.user1Accepted /\ n.user2Accepted) /\ n.status = m.status]_vars

\* C25 witness: a record that was accepted by both users is unmatched or rejected, and
\* one user has accepted it since: one flag is true and the status is as it was saved
C25_Witness ==
  \E m \in matches :
    /\ m.status \in {"rejected", "unmatched"}
    /\ m.user1Accepted # m.user2Accepted
    /\ decided[<<m.user1, m.user2>>].status = m.status
    /\ resp = 200

\* the two users have a record of status accepted
AcceptedPair(ms, userId, recipientId) ==
  \E m \in ms : m.status = "accepted" /\ {m.user1, m.user2} = {userId, recipientId}

\* C26: startChat answers 200 or adds a chat only when the two users have an accepted
\* record, and the chat it adds is the chat of these two; when they have none (the
\* record is pending, rejected, unmatched or absent) and the stores answer, it answers
\* 403, and in every such case the Chat collection is as it was.
C26_ChatOnlyWhenAccepted ==
  [][\A userId \in Users, recipientId \in Users, ok \in BOOLEAN :
       startChat(userId, recipientId, ok) =>
         IF AcceptedPair(matches, userId, recipientId)
           THEN chats' \in {chats, chats \cup {{userId, recipientId}}}
           ELSE /\ chats' = chats
                /\ resp' # 200
                /\ ok => resp' = 403]_vars

\* C26 witness: the last request was refused with 403 while a chat of two users exists
\* whose record is unmatched, and another record is pending
C26_Witness ==
  /\ resp = 403
  /\ \E m \in matches : m.status = "unmatched" /\ {m.user1, m.user2} \in chats
  /\ \E m \in matches : m.status = "pending"

\* C28 (as claimed): when no recompute pass is in flight, no Match Record involves a
\* user who held vents, holds none any more, and for whom no pass was started other
\* than the one of the deleteVent that removed the last vent, however that deletion and
\* its pass were interleaved with the passes of other users.
C28_NoContentNoRecordAtRest ==
  procs = <<>> =>
    \A u \in index :
      (/\ ~HasVents(vents, u)
       /\ Cardinality({k \in 1..Len(hist.started) : hist.started[k] = u}) = 1)
        => ~\E m \in matches : Involves(m, u)

\* C29 (as claimed): after a deleteVent that answers 200 and leaves its user with vents,
\* no Match Record holds an evidence entry that names the deleted vent, and a record
\* that held such an entry has a lower matchScore than before.
C29_DeletedVentLeavesNoEvidence ==
  [][\A u \in Users, ventId \in 1..MaxVents :
       (deleteVent(u, ventId, NoFault) /\ resp' = 200 /\ HasVents(vents', u))
         => /\ \A n \in matches' : \A e \in n.ventMatches :
                 e.vent1 # ventId /\ e.vent2 # ventId
            /\ \A m \in matches, n \in matches' :
                 (/\ n.user1 = m.user1 /\ n.user2 = m.user2
                  /\ \E e \in m.ventMatches : e.vent1 = ventId \/ e.vent2 = ventId)
                   => n.matchScore < m.matchScore]_vars

\* C30 (as claimed): for every user u, when getUserConnections(u, recommended) finds a
\* second-degree result, every user it returns differs from u and has no MATCHED edge
\* with u in either direction; when it finds none it returns the direct matches of u;
\* when the graph store fails it returns the empty list.
C30_RecommendationsExcludeSelf ==
  \A u \in Users :
    LET returned == getUserConnections(edges, u, TRUE, TRUE)
    IN /\ SecondDegree(edges, u) # {} =>
            \A r \in returned :
              r # u /\ <<u, r>> \notin edges /\ <<r, u>> \notin edges
       /\ SecondDegree(edges, u) = {} => returned = DirectMatches(edges, u)
       /\ getUserConnections(edges, u, TRUE, FALSE) = {}

====
